---- MODULE Spec2Model ----
(***************************************************************************)
(* Model of terminal-task-manager: the App state and its console command   *)
(* pipeline (src/src/app.rs), the metrics sampler System                   *)
(* (src/src/system.rs) and the two threads of main (src/src/main.rs): the  *)
(* sampling thread feeding an mpsc channel and the UI loop reading it with *)
(* try_recv once per frame.                                                *)
(*                                                                         *)
(* The modules console, command_handler/parser, cmd and util are not part  *)
(* of the sources at hand; their operations (Console::*, handle_cmd,       *)
(* CmdError::display, util::Events) are modelled from the specification    *)
(* and marked so where they are defined.                                   *)
(***************************************************************************)
EXTENDS Integers, Sequences, FiniteSets, TLC

VARIABLES
    \* ---- App (src/src/app.rs:5-11, plus the system field of main.rs:48) ----
    mode,                       \* app.mode
    processes_sort_by,          \* app.processes_sort_by
    processes_sort_direction,   \* app.processes_sort_direction
    size,                       \* app.size, <<width, height>>
    input,                      \* app.console.input, a sequence of characters
    log,                        \* app.console.log, a sequence of rendered lines
    visible,                    \* app.console.visible
    app_system,                 \* app.system: the snapshot the UI shows
    \* ---- main (src/src/main.rs) ----
    ui_pc,                      \* position of the UI loop
    term_size,                  \* what terminal.size() reports, <<width, height>>
    chan,                       \* snapshots sent and not yet received
    main_view_constraints,      \* the outer vertical constraints of the last frame
    \* ---- sampling thread ----
    system,                     \* the System owned by the sampling thread
    sampler_pc,                 \* position of the sampling thread
    init_width,                 \* terminal.size()?.width read at startup (main.rs:41)
    \* ---- history variables (observers, read by no action's guard) ----
    h_typed,                    \* characters typed minus backspaced since the last submission
    h_line,                     \* the line handed to the parser by the last submission
    h_op,                       \* the last operation that acted
    h_submits,                  \* number of console submissions so far
    h_toggles,                  \* number of toggle_sort_direction calls so far
    h_reading,                  \* the provider readings of the most recent tick
    h_nproc0                    \* processor entries the provider reported at construction

appVars   == <<mode, processes_sort_by, processes_sort_direction, size, input, log,
               visible, app_system>>
mainVars  == <<ui_pc, term_size, chan, main_view_constraints>>
sysVars   == <<system, sampler_pc, init_width>>
uiHist    == <<h_typed, h_line, h_submits, h_toggles>>
sysHist   == <<h_reading, h_nproc0>>
vars      == <<mode, processes_sort_by, processes_sort_direction, size, input, log,
               visible, app_system, ui_pc, term_size, chan, main_view_constraints,
               system, sampler_pc, init_width, h_typed, h_line, h_op, h_submits, h_toggles, h_reading,
               h_nproc0>>

----------------------------------------------------------------------------
(* Bounds of the model *)

MaxSubmits == 2     \* console submissions per run
MaxToggles == 2     \* toggle_sort_direction calls per run
MaxTicks   == 3     \* sampling ticks per run
MaxWidth   == 5     \* largest initial terminal width tried
MaxHeight  == 16    \* largest terminal height tried for the layout

----------------------------------------------------------------------------
(* Characters and lines.  A line is a sequence of one-character strings.   *)

w_sort   == <<"s", "o", "r", "t">>
w_cpu    == <<"c", "p", "u">>
w_mem    == <<"m", "e", "m">>
w_asc    == <<"a", "s", "c">>
w_desc   == <<"d", "e", "s", "c">>
w_up     == <<"u", "p">>
sp       == <<" ">>

Chars == {"s", "o", "r", "t", "c", "p", "u", "m", "e", "a", "d", " "}

\* The lines a user types in the runs explored, every prefix of them included:
\* the prefixes of "sort cpu asc" alone give the two successful parses
\* ("sort cpu", "sort cpu asc") and every kind of parse error ("", "so",
\* "sort", "sort cp", "sort cpu a").
AppLines ==
    { w_sort \o sp \o w_cpu \o sp \o w_asc,
      w_sort \o sp \o w_mem \o sp \o w_desc }

\* The lines typed when the sampling thread runs too (kept few: the two
\* threads' states multiply).
MainLines == { w_up }

IsPrefixOf(s, t) == Len(s) <= Len(t) /\ SubSeq(t, 1, Len(s)) = s

Typable(s, lines) == \E l \in lines : IsPrefixOf(s, l)

----------------------------------------------------------------------------
(* The command grammar: command_handler::handle_cmd, modelled from the     *)
(* specification's grammar                                                 *)
(*     sort_command := "sort" WS field (WS direction)?                     *)
(* Tokens are separated by runs of spaces; words are lower case.           *)

RECURSIVE Tokens(_, _, _)
\* The space-separated words of the rest of a line; cur is the word being read.
Tokens(line, cur, acc) ==
    IF line = <<>>
    THEN IF cur = <<>> THEN acc ELSE Append(acc, cur)
    ELSE IF Head(line) = " "
         THEN Tokens(Tail(line), <<>>, IF cur = <<>> THEN acc ELSE Append(acc, cur))
         ELSE Tokens(Tail(line), Append(cur, Head(line)), acc)

NoCmd == [field |-> "-", direction |-> "-"]

ParseOk(f, d)  == [tag |-> "Ok", cmd |-> [field |-> f, direction |-> d],
                   custom |-> FALSE, err |-> "-"]
\* nom::Err::Error/Failure carrying Context::Code(_, ErrorKind::Custom(e))
ParseCustom(e) == [tag |-> "Error", cmd |-> NoCmd, custom |-> TRUE, err |-> e]
\* nom::Err::Error/Failure carrying any other context
ParseOther     == [tag |-> "Error", cmd |-> NoCmd, custom |-> FALSE, err |-> "-"]

FieldOf(w) == IF w = w_cpu THEN "CPU" ELSE IF w = w_mem THEN "MEM" ELSE "-"
DirectionOf(w) == IF w = w_asc THEN "ASC" ELSE IF w = w_desc THEN "DESC" ELSE "-"

DefaultDirection == "DESC"

handle_cmd(line) ==
    LET t == Tokens(line, <<>>, <<>>) IN
    IF Len(t) = 0 THEN ParseOther
    ELSE IF t[1] # w_sort THEN ParseCustom("UnknownVerb")
    ELSE IF Len(t) = 1 THEN ParseOther
    ELSE IF FieldOf(t[2]) = "-" THEN ParseCustom("UnknownField")
    ELSE IF Len(t) = 2 THEN ParseOk(FieldOf(t[2]), DefaultDirection)
    ELSE IF DirectionOf(t[3]) = "-" THEN ParseCustom("UnknownDirection")
    ELSE IF Len(t) > 3 THEN ParseOther
    ELSE ParseOk(FieldOf(t[2]), DirectionOf(t[3]))

\* format!("{:?}", cmd)
DebugFmt(cmd) ==
    CASE cmd.field = "CPU" /\ cmd.direction = "ASC"  -> "Sort { field: CPU, direction: ASC }"
      [] cmd.field = "CPU" /\ cmd.direction = "DESC" -> "Sort { field: CPU, direction: DESC }"
      [] cmd.field = "MEM" /\ cmd.direction = "ASC"  -> "Sort { field: MEM, direction: ASC }"
      [] cmd.field = "MEM" /\ cmd.direction = "DESC" -> "Sort { field: MEM, direction: DESC }"

\* CmdError::display
Display(e) ==
    CASE e = "UnknownVerb"      -> "unknown command"
      [] e = "UnknownField"     -> "unknown sort field"
      [] e = "UnknownDirection" -> "unknown sort direction"
      [] e = "ParseErr"         -> "malformed command"

ErrorLines == { Display(e) : e \in {"UnknownVerb", "UnknownField", "UnknownDirection",
                                    "ParseErr"} }

----------------------------------------------------------------------------
(* Console (console.rs), modelled from the specification's data model:     *)
(* input edited at its end only, log append-only, a visibility flag.       *)

append_input(buf, c) == Append(buf, c)

backspace(buf) == IF buf = <<>> THEN <<>> ELSE SubSeq(buf, 1, Len(buf) - 1)

\* Console::clear_input: returns the buffer and leaves it empty
clear_input(buf) == [taken |-> buf, left |-> <<>>]

write(lg, line) == Append(lg, line)

toggle_visibility(v) == ~v

----------------------------------------------------------------------------
(* App (src/src/app.rs) *)

\* (mutant) the DESC arm assigns DESC again
FlipDescStuck(d) == IF d = "ASC" THEN "DESC" ELSE "DESC"

\* The match of toggle_sort_direction
Flip(d) == IF d = "ASC" THEN "DESC" ELSE "ASC"

toggle_sort_direction ==
    /\ processes_sort_direction' = Flip(processes_sort_direction)
    /\ UNCHANGED <<mode, processes_sort_by, size, input, log, visible, app_system>>

\* (mutant) the error arm writes nothing
WrittenDropsErrors(res) ==
    CASE res.tag = "Ok" -> <<DebugFmt(res.cmd)>>
      [] OTHER          -> <<>>

\* The lines the match of process_command writes for a parse result: one for
\* Ok, one for Error/Failure, none for the remaining arm (`_ => {}`).
Written(res) ==
    CASE res.tag = "Ok"    -> <<DebugFmt(res.cmd)>>
      [] res.tag = "Error" -> IF res.custom THEN <<Display(res.err)>>
                                            ELSE <<Display("ParseErr")>>
      [] OTHER             -> <<>>

\* (mutant) a failed parse puts the sort state back to its defaults
process_command_ErrResetsSort ==
    LET c   == clear_input(input)
        res == handle_cmd(c.taken)
        out == Written(res)
    IN  /\ input' = c.left
        /\ h_line' = c.taken
        /\ log' = IF out = <<>> THEN log ELSE write(log, out[1])
        /\ processes_sort_by' = IF res.tag = "Error" THEN "CPU" ELSE processes_sort_by
        /\ processes_sort_direction' =
              IF res.tag = "Error" THEN "DESC" ELSE processes_sort_direction
        /\ UNCHANGED <<mode, size, visible, app_system>>

\* (mutant) the log keeps only the line of the last submission
process_command_LogReplaced ==
    LET c   == clear_input(input)
        res == handle_cmd(c.taken)
        out == Written(res)
    IN  /\ input' = c.left
        /\ h_line' = c.taken
        /\ log' = out
        /\ UNCHANGED <<mode, processes_sort_by, processes_sort_direction, size,
                       visible, app_system>>

\* (mutant) the buffer is read (cloned) and not cleared
process_command_KeepsInput ==
    LET res == handle_cmd(input)
        out == Written(res)
    IN  /\ input' = input
        /\ h_line' = input
        /\ log' = IF out = <<>> THEN log ELSE write(log, out[1])
        /\ UNCHANGED <<mode, processes_sort_by, processes_sort_direction, size,
                       visible, app_system>>

process_command ==
    LET c   == clear_input(input)
        res == handle_cmd(c.taken)
        out == Written(res)
    IN  /\ input' = c.left
        /\ h_line' = c.taken           \* observer: the line given to handle_cmd
        /\ log' = IF out = <<>> THEN log ELSE write(log, out[1])
        /\ UNCHANGED <<mode, processes_sort_by, processes_sort_direction, size,
                       visible, app_system>>

----------------------------------------------------------------------------
(* System (src/src/system.rs).  The metrics provider is the environment: a *)
(* reading is what get_processor_list / get_used_memory / get_free_memory  *)
(* return after refresh_all.  Usages are fractions, kept in thousandths.   *)

MemTotals == {8}

\* (x * 100.0).round() as u64, x given in thousandths
Percent(raw) == (raw + 5) \div 10

RawUsages == {0, 125, 1000}
MemValues == {2, 6}
MemFrees  == {1}

\* nproc counts the aggregate entry at index 0; cores are the entries after it
Readings(procCounts, raws, coreRaws, mems, frees) ==
    UNION { [nproc : {n}, cpu : raws, cores : [1..(n - 1) -> coreRaws],
             used : mems, free : frees] : n \in procCounts }

Zeros(n) == [i \in 1..n |-> 0]

System_new(initial_size, nproc, total) ==
    LET history_width == initial_size \div 2 IN
    [ cpu_usage_history |-> Zeros(history_width),
      cpu_current_usage |-> 0,
      cpu_num_cores     |-> nproc - 1,
      mem_total         |-> total,
      mem_free          |-> 0,
      mem_used          |-> 0,
      mem_usage_history |-> Zeros(history_width),
      cpu_core_usages   |-> <<>>,
      tick              |-> 0 ]      \* history field: updates applied so far

\* (mutant) the newest element is removed instead of the oldest
PushRemoveLast(hist, x) == SubSeq(Append(hist, x), 1, Len(hist))

\* (mutant) the new value enters at the front and the last element leaves
InsertFrontPop(hist, x) == SubSeq(<<x>> \o hist, 1, Len(hist))

\* Vec::push(x) followed by Vec::remove(0)
PushRemove0(hist, x) == Tail(Append(hist, x))

update(sys, r) ==
    [ sys EXCEPT
        !.cpu_current_usage = Percent(r.cpu),
        !.cpu_usage_history = PushRemove0(sys.cpu_usage_history, Percent(r.cpu)),
        !.mem_used          = r.used,
        !.mem_free          = r.free,
        !.mem_usage_history = PushRemove0(sys.mem_usage_history, r.used),
        !.cpu_core_usages   = [i \in 1..(r.nproc - 1) |-> Percent(r.cores[i])],
        !.tick              = sys.tick + 1 ]

----------------------------------------------------------------------------
(* Layout.  The constraints are built in main (main.rs:69-83); they are     *)
(* solved by render::define_layout, modelled from the specification's       *)
(* partitioning algorithm (extents along the split axis only).              *)

Length(n)     == [kind |-> "Length", v |-> n]
Percentage(p) == [kind |-> "Percentage", v |-> p]
Min(n)        == [kind |-> "Min", v |-> n]

\* (mutant) the overview is sized by the whole constraint list, the trailing
\* Min(0) filler included (the `- 1` of main.rs:80 forgotten)
MainViewConstraintsFillerCounted(cores, vis) ==
    <<Length((cores + 1) * 3), Min(0), Percentage(IF vis THEN 20 ELSE 0), Length(3)>>

\* (mutant) the two branches of `if app.console.visible` exchanged
MainViewConstraintsSwapped(cores, vis) ==
    <<Length(cores * 3), Min(0), Percentage(IF vis THEN 0 ELSE 20), Length(3)>>

\* main_view_constraints (main.rs:75-83); cpu_core_contraints has one
\* Length(3) per core and a trailing Min(0), so its len() - 1 is the core count
MainViewConstraints(cores, vis) ==
    IF vis
    THEN <<Length(cores * 3), Min(0), Percentage(20), Length(3)>>
    ELSE <<Length(cores * 3), Min(0), Percentage(0), Length(3)>>

\* p percent of an extent, rounded half up
PercentOf(p, extent) == (p * extent + 50) \div 100

\* What a constraint takes before the remaining extent is distributed
Requested(c, extent) ==
    IF c.kind = "Percentage" THEN PercentOf(c.v, extent) ELSE c.v

RECURSIVE SumSeq(_)
SumSeq(q) == IF q = <<>> THEN 0 ELSE Head(q) + SumSeq(Tail(q))

\* Extents of the sibling rectangles, in constraint order: Length and
\* Percentage slots get what they request; what remains of the parent is
\* split evenly among the Min slots, the last of them taking the leftover.
define_layout(constraints, extent) ==
    LET n         == Len(constraints)
        req       == [i \in 1..n |-> Requested(constraints[i], extent)]
        mins      == {i \in 1..n : constraints[i].kind = "Min"}
        rest      == IF extent > SumSeq(req) THEN extent - SumSeq(req) ELSE 0
        share     == IF mins = {} THEN 0 ELSE rest \div Cardinality(mins)
        leftover  == IF mins = {} THEN 0 ELSE rest % Cardinality(mins)
        lastMin   == IF mins = {} THEN 0 ELSE CHOOSE i \in mins : \A j \in mins : j <= i
    IN  [i \in 1..n |->
            IF i \in mins
            THEN req[i] + share + (IF i = lastMin THEN leftover ELSE 0)
            ELSE req[i]]

----------------------------------------------------------------------------
(* main (src/src/main.rs) *)

\* ---- startup (main.rs:34-59) ----

\* Raw mode, the terminal and its size were acquired, the App and the System
\* built, and the sampling thread spawned; the UI loop is entered.
StartupOk ==
    /\ ui_pc = "start"
    /\ ui_pc' = "frame"
    /\ sampler_pc' = "update"
    /\ h_op' = "StartupOk"
    /\ UNCHANGED <<appVars, term_size, chan, main_view_constraints, system, init_width,
                   uiHist, sysHist>>

\* (mutant) the sampling thread is spawned before the fallible calls
StartupFailsAfterSpawn ==
    /\ ui_pc = "start"
    /\ ui_pc' = "failed"
    /\ sampler_pc' = "update"
    /\ h_op' = "StartupFails"
    /\ UNCHANGED <<appVars, term_size, chan, main_view_constraints, system, init_width,
                   uiHist, sysHist>>

\* One of the `?` of main.rs:35-48 returned the error: main returns Err before
\* thread::spawn and before the loop
StartupFails ==
    /\ ui_pc = "start"
    /\ ui_pc' = "failed"
    /\ h_op' = "StartupFails"
    /\ UNCHANGED <<appVars, term_size, chan, main_view_constraints, sysVars, uiHist,
                   sysHist>>

\* ---- the sampling thread (main.rs:52-59) ----

\* system.update() in the sampling thread
SamplerUpdate(r, maxTicks) ==
    /\ sampler_pc = "update"
    /\ system.tick < maxTicks
    /\ system' = update(system, r)
    /\ sampler_pc' = "send"
    /\ h_reading' = r
    /\ h_op' = "SamplerUpdate"
    /\ UNCHANGED <<appVars, mainVars, init_width, uiHist, h_nproc0>>

\* system.update() when the provider's processor list is empty after
\* refresh_all: get_processor_list()[0] panics, which ends the sampling
\* thread and no other
SamplerPanics ==
    /\ sampler_pc = "update"
    /\ sampler_pc' = "panicked"
    /\ h_op' = "SamplerPanics"
    /\ UNCHANGED <<appVars, mainVars, system, init_width, uiHist, sysHist>>

\* System::update called on a System that is not shared with any thread
SystemUpdate(r) ==
    /\ system.tick < MaxTicks
    /\ system' = update(system, r)
    /\ h_reading' = r
    /\ h_op' = "SystemUpdate"
    /\ UNCHANGED <<appVars, mainVars, sampler_pc, init_width, uiHist, h_nproc0>>

\* (mutant) the channel is a sync_channel(1): send blocks while it is full
SamplerSendBounded ==
    /\ sampler_pc = "send"
    /\ Len(chan) < 1
    /\ chan' = Append(chan, system)
    /\ sampler_pc' = "update"
    /\ h_op' = "SamplerSend"
    /\ UNCHANGED <<appVars, ui_pc, term_size, main_view_constraints, system, init_width,
                   uiHist, sysHist>>

\* system_tx.send(..).unwrap() on the unbounded channel, then the sleep
SamplerSend ==
    /\ sampler_pc = "send"
    /\ chan' = Append(chan, system)
    /\ sampler_pc' = "update"
    /\ h_op' = "SamplerSend"
    /\ UNCHANGED <<appVars, ui_pc, term_size, main_view_constraints, system, init_width,
                   uiHist, sysHist>>

\* The send of a run in which the UI loop is fast: a frame has run since the
\* previous send, so the previous snapshot is no longer pending
SamplerSendAfterFrame ==
    /\ chan = <<>>
    /\ SamplerSend

\* ---- the UI loop (main.rs:61-130) ----

\* (mutant) the channel is read with the blocking recv()
FrameBlockingRecv ==
    /\ ui_pc = "frame"
    /\ chan # <<>>
    /\ size' = term_size
    /\ app_system' = Head(chan)
    /\ chan' = Tail(chan)
    /\ h_op' = "FrameRecv"
    /\ main_view_constraints' = MainViewConstraints(app_system'.cpu_num_cores, visible)
    /\ ui_pc' = "event"
    /\ UNCHANGED <<mode, processes_sort_by, processes_sort_direction, input, log,
                   visible, term_size, sysVars, uiHist, sysHist>>

\* (mutant) the frame does not poll the channel
FrameNoPoll ==
    /\ ui_pc = "frame"
    /\ size' = term_size
    /\ UNCHANGED <<app_system, chan>>
    /\ h_op' = "FrameEmpty"
    /\ main_view_constraints' = MainViewConstraints(app_system'.cpu_num_cores, visible)
    /\ ui_pc' = "event"
    /\ UNCHANGED <<mode, processes_sort_by, processes_sort_direction, input, log,
                   visible, term_size, sysVars, uiHist, sysHist>>

\* (mutant) the frame drains the channel and keeps the newest snapshot
FrameDrainsAll ==
    /\ ui_pc = "frame"
    /\ size' = term_size
    /\ IF chan # <<>>
       THEN /\ app_system' = chan[Len(chan)]
            /\ chan' = <<>>
            /\ h_op' = "FrameRecv"
       ELSE /\ UNCHANGED <<app_system, chan>>
            /\ h_op' = "FrameEmpty"
    /\ main_view_constraints' = MainViewConstraints(app_system'.cpu_num_cores, visible)
    /\ ui_pc' = "event"
    /\ UNCHANGED <<mode, processes_sort_by, processes_sort_direction, input, log,
                   visible, term_size, sysVars, uiHist, sysHist>>

\* (mutant) app.size is set once, before the loop, and not refreshed
FrameStaleSize ==
    /\ ui_pc = "frame"
    /\ size' = IF size = <<0, 0>> THEN term_size ELSE size
    /\ IF chan # <<>>
       THEN /\ app_system' = Head(chan)
            /\ chan' = Tail(chan)
            /\ h_op' = "FrameRecv"
       ELSE /\ UNCHANGED <<app_system, chan>>
            /\ h_op' = "FrameEmpty"
    /\ main_view_constraints' = MainViewConstraints(app_system'.cpu_num_cores, visible)
    /\ ui_pc' = "event"
    /\ UNCHANGED <<mode, processes_sort_by, processes_sort_direction, input, log,
                   visible, term_size, sysVars, uiHist, sysHist>>

\* One frame, from the top of the loop to the call of events.next(): app.size
\* is refreshed, the channel is polled with try_recv, the constraints of the
\* layouts are built from app.system and app.console, the screen is drawn.
Frame ==
    /\ ui_pc = "frame"
    /\ size' = term_size
    /\ IF chan # <<>>
       THEN /\ app_system' = Head(chan)
            /\ chan' = Tail(chan)
            /\ h_op' = "FrameRecv"
       ELSE /\ UNCHANGED <<app_system, chan>>
            /\ h_op' = "FrameEmpty"
    /\ main_view_constraints' = MainViewConstraints(app_system'.cpu_num_cores, visible)
    /\ ui_pc' = "event"
    /\ UNCHANGED <<mode, processes_sort_by, processes_sort_direction, input, log,
                   visible, term_size, sysVars, uiHist, sysHist>>

\* One of the `?` inside the loop returned an I/O error (terminal.size, draw,
\* write!, show_cursor, events.next, hide_cursor): main returns Err
TerminalError ==
    /\ ui_pc \in {"frame", "event"}
    /\ ui_pc' = "failed"
    /\ h_op' = "TerminalError"
    /\ UNCHANGED <<appVars, term_size, chan, main_view_constraints, sysVars, uiHist,
                   sysHist>>

\* `app.size.height - 1` (main.rs:104) on a terminal reporting height 0: a
\* build with overflow checks panics there; one without wraps and the frame
\* goes on (that outcome is Frame)
HeightUnderflow ==
    /\ ui_pc = "frame"
    /\ term_size[2] = 0
    /\ ui_pc' = "panicked"
    /\ h_op' = "HeightUnderflow"
    /\ UNCHANGED <<appVars, term_size, chan, main_view_constraints, sysVars, uiHist,
                   sysHist>>

\* events.next() returned something that is not Event::Input (util::Events)
EventOther ==
    /\ ui_pc = "event"
    /\ ui_pc' = "frame"
    /\ h_op' = "EventOther"
    /\ UNCHANGED <<appVars, term_size, chan, main_view_constraints,
                   sysVars, uiHist, sysHist>>

\* Key::Ctrl('c') => break
KeyCtrlC ==
    /\ ui_pc = "event"
    /\ ui_pc' = "done"
    /\ h_op' = "KeyCtrlC"
    /\ UNCHANGED <<appVars, term_size, chan, main_view_constraints,
                   sysVars, uiHist, sysHist>>

\* (mutant) the '/' arm also empties the input buffer
KeySlashClearsInput(c) ==
    /\ ui_pc = "event"
    /\ c = "/"
    /\ visible' = toggle_visibility(visible)
    /\ input' = <<>>
    /\ ui_pc' = "frame"
    /\ h_op' = "KeySlash"
    /\ UNCHANGED <<mode, processes_sort_by, processes_sort_direction, size, log,
                   app_system, term_size, chan, main_view_constraints,
                   sysVars, uiHist, sysHist>>

\* Key::Char('/') => app.console.toggle_visibility()
KeySlash(c) ==
    /\ ui_pc = "event"
    /\ c = "/"
    /\ visible' = toggle_visibility(visible)
    /\ ui_pc' = "frame"
    /\ h_op' = "KeySlash"
    /\ UNCHANGED <<mode, processes_sort_by, processes_sort_direction, size, input, log,
                   app_system, term_size, chan, main_view_constraints,
                   sysVars, uiHist, sysHist>>

\* Key::Char('\n') => app.process_command()
KeyEnter(c, maxSubmits) ==
    /\ ui_pc = "event"
    /\ c = "\n"
    /\ h_submits < maxSubmits
    /\ process_command
    /\ ui_pc' = "frame"
    /\ h_op' = "KeyEnter"
    /\ h_typed' = <<>>
    /\ h_submits' = h_submits + 1
    /\ UNCHANGED <<term_size, chan, main_view_constraints,
                   sysVars, h_toggles, sysHist>>

\* (mutant) the Key::Char(c) arm is tried before the '/' and '\n' arms
KeyCharTakesAll(c, lines) ==
    /\ ui_pc = "event"
    /\ Typable(Append(h_typed, c), lines) \/ c \in {"/", "\n"}
    /\ input' = append_input(input, c)
    /\ ui_pc' = "frame"
    /\ h_op' = "KeyChar"
    /\ h_typed' = Append(h_typed, c)
    /\ UNCHANGED <<mode, processes_sort_by, processes_sort_direction, size, log, visible,
                   app_system, term_size, chan, main_view_constraints,
                   sysVars, h_line, h_submits, h_toggles,
                   sysHist>>

\* Key::Char(c) => app.console.append_input(c), reached by the characters the
\* two arms above did not take
KeyChar(c, lines) ==
    /\ ui_pc = "event"
    /\ c \notin {"/", "\n"}
    /\ Typable(Append(h_typed, c), lines)
    /\ input' = append_input(input, c)
    /\ ui_pc' = "frame"
    /\ h_op' = "KeyChar"
    /\ h_typed' = Append(h_typed, c)
    /\ UNCHANGED <<mode, processes_sort_by, processes_sort_direction, size, log, visible,
                   app_system, term_size, chan, main_view_constraints,
                   sysVars, h_line, h_submits, h_toggles,
                   sysHist>>

\* Key::Backspace => app.console.backspace()
KeyBackspace ==
    /\ ui_pc = "event"
    /\ input' = backspace(input)
    /\ ui_pc' = "frame"
    /\ h_op' = "KeyBackspace"
    /\ h_typed' = IF h_typed = <<>> THEN <<>> ELSE SubSeq(h_typed, 1, Len(h_typed) - 1)
    /\ UNCHANGED <<mode, processes_sort_by, processes_sort_direction, size, log, visible,
                   app_system, term_size, chan, main_view_constraints,
                   sysVars, h_line, h_submits, h_toggles,
                   sysHist>>

\* _ => {}
KeyOther ==
    /\ ui_pc = "event"
    /\ ui_pc' = "frame"
    /\ h_op' = "KeyOther"
    /\ UNCHANGED <<appVars, term_size, chan, main_view_constraints,
                   sysVars, uiHist, sysHist>>

\* The user resizes the terminal: terminal.size() reports another size from now on
Resize(sizes) ==
    /\ ui_pc \in {"frame", "event"}
    /\ \E sz \in sizes \ {term_size} : term_size' = sz
    /\ h_op' = "Resize"
    /\ UNCHANGED <<appVars, ui_pc, chan, main_view_constraints, sysVars, uiHist, sysHist>>

\* A caller of the App's public toggle_sort_direction (no key is bound to it)
ToggleSortDirection ==
    /\ ui_pc = "event"
    /\ h_toggles < MaxToggles
    /\ toggle_sort_direction
    /\ h_toggles' = h_toggles + 1
    /\ h_op' = "ToggleSortDirection"
    /\ UNCHANGED <<mainVars, sysVars, h_typed, h_line, h_submits, sysHist>>

----------------------------------------------------------------------------
(* Specifications *)

KeyChars == Chars \cup {"/", "\n"}

\* Lengths of the provider's processor list tried (aggregate entry included)
ProcCounts == 1..3

\* The state when main starts, with the values its startup will build
\* (main.rs:34-51, app.rs:14-22)
InitWith(sizes, procCounts) ==
    /\ term_size \in sizes
    /\ init_width = term_size[1]
    /\ h_nproc0 \in procCounts
    /\ \E total \in MemTotals :
          /\ system = System_new(init_width, h_nproc0, total)
          /\ app_system = System_new(init_width, h_nproc0, total)
    /\ mode = "Main"
    /\ processes_sort_by = "CPU"
    /\ processes_sort_direction = "DESC"
    /\ size = <<0, 0>>
    /\ input = <<>>
    /\ log = <<>>
    /\ visible = FALSE
    /\ ui_pc = "start"
    /\ chan = <<>>
    /\ main_view_constraints = <<>>
    /\ sampler_pc = "unspawned"
    /\ h_typed = <<>>
    /\ h_line = <<>>
    /\ h_op = "Init"
    /\ h_submits = 0
    /\ h_toggles = 0
    /\ h_reading = [nproc |-> h_nproc0, cpu |-> 0, cores |-> Zeros(h_nproc0 - 1),
                     used |-> 0, free |-> 0]

\* -- the whole program: both threads --
MainSizes   == {<<4, 12>>, <<7, 12>>, <<7, 0>>}
MainSubmits == 1
MainTicks   == 2

Init == InitWith(MainSizes, {2})

Next ==
    \/ StartupOk
    \/ StartupFails
    \/ Frame
    \/ TerminalError
    \/ HeightUnderflow
    \/ EventOther
    \/ KeyCtrlC
    \/ \E c \in KeyChars : KeySlash(c)
    \/ \E c \in KeyChars : KeyEnter(c, MainSubmits)
    \/ \E c \in KeyChars : KeyChar(c, MainLines)
    \/ KeyBackspace
    \/ KeyOther
    \/ Resize(MainSizes)
    \/ \E r \in Readings({2}, {1000}, {500}, {2}, {1}) : SamplerUpdate(r, MainTicks)
    \/ SamplerPanics
    \/ SamplerSend

Spec == Init /\ [][Next]_vars

\* -- the whole program under fast consumption: the UI loop runs at least one
\* frame between any two consecutive sends of the sampling thread --
NextFast ==
    \/ StartupOk
    \/ StartupFails
    \/ Frame
    \/ TerminalError
    \/ HeightUnderflow
    \/ EventOther
    \/ KeyCtrlC
    \/ \E c \in KeyChars : KeySlash(c)
    \/ \E c \in KeyChars : KeyEnter(c, MainSubmits)
    \/ \E c \in KeyChars : KeyChar(c, MainLines)
    \/ KeyBackspace
    \/ KeyOther
    \/ Resize(MainSizes)
    \/ \E r \in Readings({2}, {1000}, {500}, {2}, {1}) : SamplerUpdate(r, MainTicks)
    \/ SamplerPanics
    \/ SamplerSendAfterFrame

SpecFast == Init /\ [][NextFast]_vars

\* -- the UI loop and the App's operations on a terminal that works and keeps
\* its size, the sampling thread not scheduled --
InitApp == InitWith({<<4, 12>>}, {2})

NextApp ==
    \/ StartupOk
    \/ Frame
    \/ EventOther
    \/ KeyCtrlC
    \/ \E c \in KeyChars : KeySlash(c)
    \/ \E c \in KeyChars : KeyEnter(c, MaxSubmits)
    \/ \E c \in KeyChars : KeyChar(c, AppLines)
    \/ KeyBackspace
    \/ KeyOther
    \/ ToggleSortDirection

SpecApp == InitApp /\ [][NextApp]_vars

\* -- the frames of the UI loop over every terminal height and core count --
LayoutSizes == { <<4, h>> : h \in 0..MaxHeight }

InitLayout == InitWith(LayoutSizes, ProcCounts)

NextLayout ==
    \/ StartupOk
    \/ Frame
    \/ EventOther
    \/ \E c \in KeyChars : KeySlash(c)
    \/ Resize(LayoutSizes)

SpecLayout == InitLayout /\ [][NextLayout]_vars

\* -- a System alone, over every initial width and provider reading --
SysSizes   == { <<w, 12>> : w \in 0..MaxWidth }

InitSys == InitWith(SysSizes, ProcCounts)

NextSys ==
    \E r \in Readings(ProcCounts, RawUsages, {500}, MemValues, MemFrees) : SystemUpdate(r)

SpecSys == InitSys /\ [][NextSys]_vars

----------------------------------------------------------------------------
(* Properties of the console command pipeline, under SpecApp *)

SortLine(f, d) == w_sort \o sp \o f \o sp \o d

\* C1: submitting a well-formed sort command with field f and direction d
\* leaves the App with sort_by = f and sort_direction = d, whatever the sort
\* state was before.  (Stated of the state right after the submission.)
C1_SortCommandSetsSort ==
    \A f \in {w_cpu, w_mem}, d \in {w_asc, w_desc} :
        (h_op = "KeyEnter" /\ h_line = SortLine(f, d))
            => /\ processes_sort_by = FieldOf(f)
               /\ processes_sort_direction = DirectionOf(d)

\* C2: every console submission, whatever the buffer holds, adds exactly one
\* line to console.log: the log has as many lines as there were submissions.
C2_OneLinePerSubmission == Len(log) = h_submits

\* C2 witness: the empty buffer was submitted and its error line is in the log
C2_Witness ==
    /\ h_op = "KeyEnter"
    /\ h_line = <<>>
    /\ h_submits = 2
    /\ log[2] = Display("ParseErr")

Opposite(d) == CHOOSE e \in {"ASC", "DESC"} : e # d

\* C3: after 2n calls of toggle_sort_direction the direction is the starting
\* one (DESC, app.rs:18), after 2n+1 calls the opposite one; each call turns
\* the direction into its opposite and changes no other field of the App.
C3_ToggleInvolution ==
    /\ [](processes_sort_direction =
             IF h_toggles % 2 = 0 THEN "DESC" ELSE Opposite("DESC"))
    /\ [][h_toggles' # h_toggles =>
             /\ processes_sort_direction' = Opposite(processes_sort_direction)
             /\ UNCHANGED <<mode, processes_sort_by, size, input, log, visible,
                            app_system>>]_vars

\* C3 witness: two calls were made and the direction is back at its start
C3_Witness ==
    /\ h_toggles = 2
    /\ h_op = "ToggleSortDirection"
    /\ processes_sort_direction = "DESC"

\* C4: a submission that fails to parse keeps sort_by and sort_direction; all
\* it changes is the input buffer, cleared, and console.log, one error line
\* longer.
C4_ParseErrorKeepsState ==
    [][(h_submits' # h_submits /\ handle_cmd(input).tag = "Error") =>
          /\ processes_sort_by' = processes_sort_by
          /\ processes_sort_direction' = processes_sort_direction
          /\ input' = <<>>
          /\ \E line \in ErrorLines : log' = Append(log, line)
          /\ UNCHANGED <<mode, size, visible, app_system>>]_vars

\* C4 witness: a line with an unknown field was submitted after the direction
\* had been toggled to ASC, and ASC it still is
C4_Witness ==
    /\ h_op = "KeyEnter"
    /\ handle_cmd(h_line) = ParseCustom("UnknownField")
    /\ processes_sort_direction = "ASC"
    /\ log[Len(log)] = Display("UnknownField")

\* C5: no submission changes the snapshot, the terminal size, the mode or
\* console.visible, and the log before it is a prefix of the log after it.
C5_SubmissionFrame ==
    [][h_submits' # h_submits =>
          /\ UNCHANGED <<app_system, size, term_size, mode, visible>>
          /\ IsPrefixOf(log, log')]_vars

\* C5 witness: a second submission was made and the first line is still there
C5_Witness ==
    /\ h_op = "KeyEnter"
    /\ h_submits = 2
    /\ log = <<Display("UnknownVerb"), DebugFmt([field |-> "CPU", direction |-> "ASC"])>>

\* C6: the line a submission hands to the parser is exactly what was typed
\* (minus what was backspaced) since the previous submission, the buffer is
\* empty right after it, and only a submission sets the submitted line.
C6_ReadAndClear ==
    /\ [](input = h_typed)
    /\ [][h_submits' # h_submits => (h_line' = h_typed /\ input' = <<>>)]_vars
    /\ [][h_line' # h_line => h_submits' # h_submits]_vars

\* C6 witness: "sort mem desc" was typed and submitted, then a key was typed
C6_Witness ==
    /\ h_line = SortLine(w_mem, w_desc)
    /\ h_op = "KeyChar"
    /\ input = <<"s">>
    /\ log = <<DebugFmt([field |-> "MEM", direction |-> "DESC"])>>

----------------------------------------------------------------------------
(* Properties of System, under SpecSys *)

\* The capacity System::new gives both history buffers
HistoryWidth == init_width \div 2

\* What the most recent tick sampled
SampledCpu == Percent(h_reading.cpu)
SampledMem == h_reading.used

IsLast(hist, x) == hist # <<>> /\ hist[Len(hist)] = x

\* C7, as claimed: for every capacity k >= 0 and after any number of ticks
\* both history buffers have length exactly k and, once a tick was applied,
\* their last element is the value that tick sampled.
C7_HistoryLengthAndLast ==
    /\ Len(system.cpu_usage_history) = HistoryWidth
    /\ Len(system.mem_usage_history) = HistoryWidth
    /\ system.tick >= 1 =>
          /\ IsLast(system.cpu_usage_history, SampledCpu)
          /\ IsLast(system.mem_usage_history, SampledMem)

\* C7, amended: the length is exactly k for every k >= 0; for k >= 1 the last
\* element is the value sampled by the most recent tick; for k = 0 the
\* buffers stay empty and have no last element.
C7_HistoryLengthAndLastIfNonEmpty ==
    /\ Len(system.cpu_usage_history) = HistoryWidth
    /\ Len(system.mem_usage_history) = HistoryWidth
    /\ (system.tick >= 1 /\ HistoryWidth >= 1) =>
          /\ IsLast(system.cpu_usage_history, SampledCpu)
          /\ IsLast(system.mem_usage_history, SampledMem)
    /\ HistoryWidth = 0 =>
          /\ system.cpu_usage_history = <<>>
          /\ system.mem_usage_history = <<>>

\* C7 witness: capacity 2, three ticks applied, the last one sampled 13% and 6
C7_Witness ==
    /\ HistoryWidth = 2
    /\ system.tick = 3
    /\ h_reading.cpu = 125
    /\ system.cpu_usage_history = <<100, 13>>
    /\ system.mem_usage_history = <<2, 6>>

\* The elements of a sequence after its first; empty for the empty sequence
Rest(hist) == SubSeq(hist, 2, Len(hist))

\* C8, as claimed: each update turns each history into the tail of the old
\* history followed by the newly sampled value.
C8_FifoShift ==
    [][system'.tick # system.tick =>
          /\ system'.cpu_usage_history =
                Rest(system.cpu_usage_history) \o <<Percent(h_reading'.cpu)>>
          /\ system'.mem_usage_history =
                Rest(system.mem_usage_history) \o <<h_reading'.used>>]_vars

\* C8, amended: for a history of capacity k >= 1 each update evicts the
\* element at index 0 and appends the newly sampled value, the others keeping
\* their order; a history of capacity 0 stays empty (the value pushed is the
\* one evicted).
C8_FifoShiftIfNonEmpty ==
    [][system'.tick # system.tick =>
          /\ system.cpu_usage_history # <<>> =>
                system'.cpu_usage_history =
                    Rest(system.cpu_usage_history) \o <<Percent(h_reading'.cpu)>>
          /\ system.mem_usage_history # <<>> =>
                system'.mem_usage_history =
                    Rest(system.mem_usage_history) \o <<h_reading'.used>>
          /\ system.cpu_usage_history = <<>> => system'.cpu_usage_history = <<>>
          /\ system.mem_usage_history = <<>> => system'.mem_usage_history = <<>>]_vars

\* C8 witness: capacity 2; the initial zeros are gone and the two latest
\* samples are there oldest first
C8_Witness ==
    /\ HistoryWidth = 2
    /\ system.tick = 2
    /\ system.cpu_usage_history = <<13, 100>>
    /\ system.mem_usage_history = <<6, 2>>

\* C9: after a tick the snapshot has core_count per-core entries, and
\* core_count is still the value computed at construction (processor entries
\* minus the aggregate one), whatever number of processors the provider
\* reports on later ticks.
C9_CoreCountFixed ==
    /\ system.cpu_num_cores = h_nproc0 - 1
    /\ system.tick >= 1 => Len(system.cpu_core_usages) = system.cpu_num_cores

----------------------------------------------------------------------------
(* Properties of the two threads, under Spec *)

\* C10: the channel read of a frame never blocks: a frame can always be
\* completed, and one that finds no snapshot pending leaves the snapshot
\* shown as it was and goes on to wait for an event.
C10_NonBlockingPoll ==
    /\ [](ui_pc = "frame" => ENABLED Frame)
    /\ [][(ui_pc = "frame" /\ ui_pc' = "event" /\ chan = <<>>) =>
             (app_system' = app_system /\ chan' = <<>>)]_vars

\* C10 witness: a frame completed on an empty channel while the sampler had
\* computed its first snapshot and not sent it yet
C10_Witness ==
    /\ h_op = "FrameEmpty"
    /\ ui_pc = "event"
    /\ sampler_pc = "send"
    /\ system.tick = 1
    /\ app_system.tick = 0


\* Ticks whose snapshot has been sent
SentTicks == IF sampler_pc = "send" THEN system.tick - 1 ELSE system.tick

\* C11 (under SpecFast): when the UI loop runs a frame between any two
\* consecutive sends, at most one snapshot is ever pending, and every frame
\* ends with the snapshot of the latest tick sent (the Nth sample after the
\* Nth tick) on show and nothing pending.
C11_FastConsumption ==
    /\ [](Len(chan) <= 1)
    /\ [][(ui_pc = "frame" /\ ui_pc' = "event") =>
             /\ chan' = <<>>
             /\ app_system'.tick = SentTicks
             /\ sampler_pc = "update" => app_system' = system]_vars

\* C11 witness: the second tick was sent and the frame after it shows it
C11_Witness ==
    /\ h_op = "FrameRecv"
    /\ system.tick = 2
    /\ sampler_pc = "update"
    /\ app_system = system
    /\ chan = <<>>

\* C12: the channel never blocks the sender: a snapshot that was computed can
\* always be sent, each send adds one pending snapshot, and only a frame of
\* the UI loop takes one away; so with the UI loop stalled every tick is left
\* pending.
C12_UnboundedChannel ==
    /\ [](sampler_pc = "send" => ENABLED SamplerSend)
    /\ [][(sampler_pc = "send" /\ sampler_pc' = "update") =>
             (chan' = Append(chan, system) /\ Len(chan') = Len(chan) + 1)]_vars
    /\ [][Len(chan') < Len(chan) => (ui_pc = "frame" /\ ui_pc' = "event")]_vars

\* C12 witness: the UI loop waits for an event since its first frame and
\* every tick of the run is pending
C12_Witness ==
    /\ ui_pc = "event"
    /\ app_system.tick = 0
    /\ system.tick = MainTicks
    /\ Len(chan) = MainTicks
    /\ Len(chan) > 1

----------------------------------------------------------------------------
(* Properties of the layout, under SpecLayout *)

\* main_view_layout (main.rs:86): the row counts of the four outer slots
main_view_layout == define_layout(main_view_constraints, size[2])

\* Whether the rows requested by the Length and Percentage slots fit the parent
Fits(constraints, extent) ==
    SumSeq([i \in 1..Len(constraints) |-> Requested(constraints[i], extent)]) <= extent

\* The specification's example: extent 100, [Length(30), Percentage(50), Min(0)]
ExampleSplit == define_layout(<<Length(30), Percentage(50), Min(0)>>, 100)

----------------------------------------------------------------------------
(* Properties of the UI loop's exits, under Spec *)

InLoop(pc) == pc \in {"frame", "event"}

\* C14, as claimed: once startup succeeded the UI loop goes on until a Ctrl-C
\* key event, the only thing that ends it (main returns Ok, exit code 0); no
\* parse error and no failure of the sampler ends it; a startup failure ends
\* the process with the sampler not started and no frame run.
C14_OnlyCtrlCEndsLoop ==
    /\ [][(InLoop(ui_pc) /\ ~InLoop(ui_pc')) =>
             (h_op' = "KeyCtrlC" /\ ui_pc' = "done")]_vars
    /\ [][(h_submits' # h_submits /\ handle_cmd(input).tag = "Error") =>
             ui_pc' = "frame"]_vars
    /\ [][sampler_pc' # sampler_pc => (ui_pc' = ui_pc \/ ui_pc = "start")]_vars
    /\ [][(ui_pc = "start" /\ ui_pc' = "failed") => sampler_pc' = "unspawned"]_vars
    /\ [](sampler_pc = "unspawned" =>
             (system.tick = 0 /\ chan = <<>> /\ main_view_constraints = <<>>))

\* C14, amended: once startup succeeded the UI loop ends only by a Ctrl-C key
\* event (Ok, exit code 0), by an I/O error of a terminal call inside the
\* loop (main returns Err), or by the overflow panic of `height - 1` on a
\* terminal reporting height 0; no parse error and no failure of the sampler
\* ends it or keeps it from taking its next step; a startup failure ends the
\* process with the sampler not started and no frame run.
C14_LoopExits ==
    /\ [][(InLoop(ui_pc) /\ ~InLoop(ui_pc')) =>
             \/ h_op' = "KeyCtrlC" /\ ui_pc' = "done"
             \/ h_op' = "TerminalError" /\ ui_pc' = "failed"
             \/ h_op' = "HeightUnderflow" /\ ui_pc' = "panicked" /\ term_size[2] = 0]_vars
    /\ [][(h_submits' # h_submits /\ handle_cmd(input).tag = "Error") =>
             ui_pc' = "frame"]_vars
    /\ [][sampler_pc' # sampler_pc => (ui_pc' = ui_pc \/ ui_pc = "start")]_vars
    /\ [](ui_pc = "frame" => ENABLED Frame)
    /\ [](ui_pc = "event" => ENABLED KeyOther)
    /\ [][(ui_pc = "start" /\ ui_pc' = "failed") => sampler_pc' = "unspawned"]_vars
    /\ [](sampler_pc = "unspawned" =>
             (system.tick = 0 /\ chan = <<>> /\ main_view_constraints = <<>>))

\* C14 witness: a line that does not parse was submitted, the sampling thread
\* has died, and the UI loop has run the next frame
C14_Witness ==
    /\ h_submits = 1
    /\ log = <<Display("UnknownVerb")>>
    /\ sampler_pc = "panicked"
    /\ h_op = "FrameEmpty"
    /\ ui_pc = "event"

----------------------------------------------------------------------------
(* Properties of resizing, under Spec *)

FrameDone == ui_pc = "frame" /\ ui_pc' = "event"

Capacity(sys) ==
    /\ Len(sys.cpu_usage_history) = init_width \div 2
    /\ Len(sys.mem_usage_history) = init_width \div 2

\* C15: a resize changes only what terminal.size() reports; the next frame
\* copies it into app.size; the history buffers of every System (the
\* sampler's, the UI's, the snapshots in flight) keep the length
\* initial_width / 2 whatever the width becomes.
C15_ResizeOnlySize ==
    /\ [][term_size' # term_size =>
             UNCHANGED <<appVars, ui_pc, chan, main_view_constraints, sysVars>>]_vars
    /\ [][FrameDone => size' = term_size]_vars
    /\ [](/\ Capacity(system)
          /\ Capacity(app_system)
          /\ \A i \in 1..Len(chan) : Capacity(chan[i]))

\* C15 witness: started 4 columns wide, now 7 columns wide, a frame took a
\* snapshot sampled after the resize, and its histories still have 2 entries
C15_Witness ==
    /\ init_width = 4
    /\ size = <<7, 12>>
    /\ h_op = "FrameRecv"
    /\ app_system.tick = 2
    /\ Len(app_system.cpu_usage_history) = 2
    /\ Len(app_system.mem_usage_history) = 2

----------------------------------------------------------------------------
(* Properties of the key dispatch, under SpecApp *)

ButLast(q) == IF q = <<>> THEN <<>> ELSE SubSeq(q, 1, Len(q) - 1)

\* C16: each key event has exactly the reaction of its arm: Ctrl-C ends the
\* loop; '/' flips console.visible and leaves input and log alone; Enter
\* submits the input as it is and empties it; another character is appended
\* at the end of the input; Backspace removes the last character; any other
\* key or event leaves the application state unchanged.
C16_OneReactionPerKey ==
    [][/\ h_op' = "KeyCtrlC" => (ui_pc' = "done" /\ UNCHANGED appVars)
       /\ h_op' = "KeySlash" =>
             /\ visible' = ~visible
             /\ ui_pc' = "frame"
             /\ UNCHANGED <<mode, processes_sort_by, processes_sort_direction, size,
                            input, log, app_system>>
       /\ h_op' = "KeyEnter" =>
             /\ h_line' = input
             /\ input' = <<>>
             /\ h_submits' = h_submits + 1
             /\ ui_pc' = "frame"
             /\ UNCHANGED <<mode, size, visible, app_system>>
       /\ h_op' = "KeyChar" =>
             /\ \E c \in KeyChars \ {"/", "\n"} : input' = input \o <<c>>
             /\ ui_pc' = "frame"
             /\ UNCHANGED <<mode, processes_sort_by, processes_sort_direction, size,
                            log, visible, app_system>>
       /\ h_op' = "KeyBackspace" =>
             /\ input' = ButLast(input)
             /\ ui_pc' = "frame"
             /\ UNCHANGED <<mode, processes_sort_by, processes_sort_direction, size,
                            log, visible, app_system>>
       /\ h_op' \in {"KeyOther", "EventOther"} =>
             (ui_pc' = "frame" /\ UNCHANGED appVars)]_vars

\* C16 witness: '/' was pressed in the middle of a line: the console shows and
\* the three characters typed are still in the input
C16_Witness ==
    /\ h_op = "KeySlash"
    /\ visible
    /\ input = <<"s", "o", "r">>
    /\ log = <<>>

----------------------------------------------------------------------------
(* Properties of the outer layout's constraints, under SpecLayout *)

\* C17: every frame requests the overview as 3 * core_count rows, the process
\* area as the filler, the console log as 20% when console.visible and 0%
\* otherwise, the input line as 3 rows; so while the loop waits for an event
\* the console slot agrees with console.visible.
C17_ConstraintsFollowState ==
    /\ [][FrameDone =>
             main_view_constraints' =
                 << [kind |-> "Length", v |-> 3 * app_system'.cpu_num_cores],
                    [kind |-> "Min", v |-> 0],
                    [kind |-> "Percentage", v |-> IF visible' THEN 20 ELSE 0],
                    [kind |-> "Length", v |-> 3] >>]_vars
    /\ [](ui_pc = "event" =>
             main_view_constraints[3].v = (IF visible THEN 20 ELSE 0))

\* C17 witness: the frame after a '/' found the console visible and requested
\* 20% for it, with 6 rows for two cores
C17_Witness ==
    /\ h_op = "FrameEmpty"
    /\ visible
    /\ app_system.cpu_num_cores = 2
    /\ main_view_constraints[1] = Length(6)
    /\ main_view_constraints[3] = Percentage(20)

----------------------------------------------------------------------------
(* Properties of the snapshots' order, under Spec *)

\* C18: the tick of the snapshot shown never decreases and advances by one
\* at most; the channel holds, oldest first, exactly the snapshots produced
\* after the one shown; a frame that finds b > 1 pending shows the oldest and
\* leaves the other b - 1 pending.
C18_FifoOnePerFrame ==
    /\ [][app_system'.tick \in {app_system.tick, app_system.tick + 1}]_vars
    /\ [](/\ \A i \in 1..Len(chan) : chan[i].tick = app_system.tick + i
          /\ app_system.tick + Len(chan) = SentTicks)
    /\ [][(FrameDone /\ Len(chan) > 1) =>
             /\ app_system' = chan[1]
             /\ app_system' # chan[Len(chan)]
             /\ chan' = Tail(chan)
             /\ Len(chan') = Len(chan) - 1]_vars

\* C18 witness: two snapshots were pending; the frame showed the first and
\* the second is still in the channel
C18_Witness ==
    /\ h_op = "FrameRecv"
    /\ app_system.tick = 1
    /\ Len(chan) = 1
    /\ chan[1].tick = 2
    /\ chan[1] = system

----------------------------------------------------------------------------
(* Properties of the input buffer's contents, under SpecApp *)

NoSlashNoNewline(q) == \A i \in 1..Len(q) : q[i] \notin {"/", "\n"}

\* C19: neither the input buffer nor any line given to the parser holds a
\* '/' or a newline; and whatever console.visible is, the loop waiting for an
\* event accepts Backspace and (below the cap on submissions) Enter.
C19_NoSlashNoNewline ==
    /\ [](NoSlashNoNewline(input) /\ NoSlashNoNewline(h_line))
    /\ [](ui_pc = "event" => ENABLED KeyBackspace)
    /\ []((ui_pc = "event" /\ h_submits < MaxSubmits) =>
             ENABLED KeyEnter("\n", MaxSubmits))
    /\ [][(h_op' = "KeyChar" /\ visible) => Len(input') = Len(input) + 1]_vars
    /\ [][(h_op' = "KeyChar" /\ ~visible) => Len(input') = Len(input) + 1]_vars

\* C19 witness: with the console hidden again after two '/' keys, a line was
\* submitted and the next one is being typed
C19_Witness ==
    /\ ~visible
    /\ h_submits = 1
    /\ h_line = w_sort \o sp \o w_cpu
    /\ h_op = "KeyChar"
    /\ input = <<"s">>
    /\ Len(log) = 1

====
